---- MODULE Spec2Model ----
(***************************************************************************)
(* Model of the compliance checklist tool of the financial advisor agent   *)
(* (compliance_checker_agent/compliance_checklist_tool.py).                *)
(*                                                                         *)
(* Texts are strings; every test the code makes on a text (str.lower, the  *)
(* substring test `in`, re.finditer, slicing, str.strip) is computed       *)
(* character by character.  One evaluation of validate_compliance is a     *)
(* sequence of steps, one per check, on the locals of the call.            *)
(***************************************************************************)
EXTENDS Integers, Sequences, FiniteSets, TLC

VARIABLES
    compliance_checklist_tool,  \* the singleton: its tables PROHIBITED_PATTERNS,
                                \* REQUIRED_DISCLAIMERS and RISK_TYPES
    candidates,            \* the texts the orchestrating agent may submit
    pc,                    \* per thread: position in validate_compliance
    response_text,         \* per thread: argument response_text
    response_type,         \* per thread: argument response_type
    strict_mode,           \* per thread: argument strict_mode
    validation_results,    \* per frame: the local dict validation_results
    ret,                   \* per thread: the value returned to the caller
    exc,                   \* per thread: the exception in flight, if any
    prev                   \* a request and its report that the caller has kept

vars == <<compliance_checklist_tool, candidates, pc,
          response_text, response_type, strict_mode, validation_results, ret, exc, prev>>

args == <<response_text, response_type, strict_mode>>

-----------------------------------------------------------------------------
(* Python values and string primitives *)

\* A Python value passed as response_text: a str, or None.
Str(s) == [type |-> "str", value |-> s]

None == [type |-> "NoneType", value |-> ""]

UpperToLower ==
    [c \in {"A", "B", "C", "D", "E", "F", "G", "H", "I", "J", "K", "L", "M",
            "N", "O", "P", "Q", "R", "S", "T", "U", "V", "W", "X", "Y", "Z"} |->
        CASE c = "A" -> "a" [] c = "B" -> "b" [] c = "C" -> "c" [] c = "D" -> "d"
          [] c = "E" -> "e" [] c = "F" -> "f" [] c = "G" -> "g" [] c = "H" -> "h"
          [] c = "I" -> "i" [] c = "J" -> "j" [] c = "K" -> "k" [] c = "L" -> "l"
          [] c = "M" -> "m" [] c = "N" -> "n" [] c = "O" -> "o" [] c = "P" -> "p"
          [] c = "Q" -> "q" [] c = "R" -> "r" [] c = "S" -> "s" [] c = "T" -> "t"
          [] c = "U" -> "u" [] c = "V" -> "v" [] c = "W" -> "w" [] c = "X" -> "x"
          [] c = "Y" -> "y" [] c = "Z" -> "z"]

UpperCase == DOMAIN UpperToLower

LowerChar(c) == IF c \in UpperCase THEN UpperToLower[c] ELSE c

\* str.lower(): every character lowered; lower[a, b] is the lowered s[a-1:b],
\* its left half then its right half
str_lower(s) ==
    LET lower[a \in 1..(Len(s) + 1), b \in 0..Len(s)] ==
            IF a > b THEN ""
            ELSE IF a = b THEN LowerChar(SubSeq(s, a, a))
            ELSE lower[a, (a + b) \div 2] \o lower[(a + b) \div 2 + 1, b]
    IN  lower[1, Len(s)]

\* Python slice s[start:end] with 0 <= start, end <= len(s)
Slice(s, start, end) == IF start >= end THEN "" ELSE SubSeq(s, start + 1, end)

\* s[i:].startswith(w), for 0 <= i <= len(s)
StartsAt(s, i, w) == i + Len(w) <= Len(s) /\ SubSeq(s, i + 1, i + Len(w)) = w

\* Python `needle in hay` on strings, by a search from the left
Search(hay, needle) == \E i \in 0..(Len(hay) - Len(needle)) : StartsAt(hay, i, needle)

Elements(seq) == {seq[k] : k \in 1..Len(seq)}

IsSpace(c) == c \in {" ", "\t", "\n", "\r"}

IsDigit(c) == c \in {"0", "1", "2", "3", "4", "5", "6", "7", "8", "9"}

RECURSIVE LStrip(_)
LStrip(s) == IF s # "" /\ IsSpace(Head(s)) THEN LStrip(Tail(s)) ELSE s

RECURSIVE RStrip(_)
RStrip(s) ==
    IF s # "" /\ IsSpace(SubSeq(s, Len(s), Len(s)))
    THEN RStrip(SubSeq(s, 1, Len(s) - 1))
    ELSE s

\* str.strip()
Strip(s) == RStrip(LStrip(s))

RECURSIVE JoinWith(_, _)
\* sep.join(list)
JoinWith(sep, list) ==
    IF list = <<>> THEN ""
    ELSE IF Len(list) = 1 THEN list[1]
    ELSE list[1] \o sep \o JoinWith(sep, Tail(list))

-----------------------------------------------------------------------------
(* Regular expressions: the fragment of `re` the prohibited patterns use.   *)
(* A pattern is a sequence of elements; matching is by backtracking in the *)
(* priority order of `re` (greedy quantifiers, alternatives left to right).*)

Lit(s) == [k |-> "lit", s |-> s]            \* literal characters

Opt(c) == [k |-> "opt", s |-> c]            \* c?

WS == [k |-> "ws"]                          \* \s+

DIG == [k |-> "dig"]                        \* \d+

Alt(alts) == [k |-> "alt", a |-> alts]      \* (p1|p2|...), each pi a pattern

NotAhead(ws) == [k |-> "nla", a |-> ws]     \* (?!w1|w2|...), each wi literal

\* re.IGNORECASE comparison of a literal with the text at offset i
StartsAtIgnoreCase(s, i, w) ==
    /\ i + Len(w) <= Len(s)
    /\ LowerChar(SubSeq(s, i + 1, i + 1)) = LowerChar(Head(w))
    /\ str_lower(SubSeq(s, i + 1, i + Len(w))) = str_lower(w)

RECURSIVE RunLength(_, _, _)
\* number of consecutive characters of class cls ("ws" or "dig") from offset i
RunLength(s, i, cls) ==
    IF i < Len(s) /\ (IF cls = "ws" THEN IsSpace(SubSeq(s, i + 1, i + 1))
                                    ELSE IsDigit(SubSeq(s, i + 1, i + 1)))
    THEN 1 + RunLength(s, i + 1, cls)
    ELSE 0

RECURSIVE Ends(_, _, _), ElemEnds(_, _, _), AltEnds(_, _, _), Continue(_, _, _)
\* the offsets at which a match of pattern re starting at offset i can end,
\* in the order the backtracking matcher tries them
Ends(re, s, i) ==
    IF Len(re) = 0 THEN <<i>> ELSE Continue(Tail(re), s, ElemEnds(Head(re), s, i))

\* the ends of the rest of a pattern from each of the offsets js, in order
Continue(rest, s, js) ==
    LET from[j \in 0..Len(s)] == Ends(rest, s, j)
        each[k \in 1..(Len(js) + 1)] ==
            IF k > Len(js) THEN <<>> ELSE from[js[k]] \o each[k + 1]
    IN  each[1]

ElemEnds(e, s, i) ==
    CASE e.k = "lit" -> IF StartsAtIgnoreCase(s, i, e.s) THEN <<i + Len(e.s)>> ELSE <<>>
      [] e.k = "opt" -> IF StartsAtIgnoreCase(s, i, e.s) THEN <<i + 1, i>> ELSE <<i>>
      [] e.k \in {"ws", "dig"} ->
            LET n == RunLength(s, i, e.k) IN [j \in 1..n |-> i + n + 1 - j]
      [] e.k = "alt" -> AltEnds(e.a, s, i)
      [] e.k = "nla" ->
            IF \E j \in 1..Len(e.a) : StartsAtIgnoreCase(s, i, e.a[j]) THEN <<>> ELSE <<i>>

AltEnds(alts, s, i) ==
    IF Len(alts) = 0 THEN <<>>
    ELSE Ends(Head(alts), s, i) \o AltEnds(Tail(alts), s, i)

\* the non-overlapping matches, left to right, as <<[start, end]>>, given for
\* each offset the ends of the matches that start there: take[S] is the
\* matches found among the offsets S at which a match can start, the one at
\* the least offset, then those from where it ended (one further on when it
\* is empty)
TakeMatches(ends) ==
    LET take[S \in SUBSET DOMAIN ends] ==
            IF S = {} THEN <<>>
            ELSE LET st == CHOOSE i \in S : \A j \in S : i <= j IN
                 <<[start |-> st, end |-> Head(ends[st])]>>
                    \o take[{i \in S : i > st /\ i >= Head(ends[st])}]
    IN  take[{i \in DOMAIN ends : Len(ends[i]) > 0}]

\* re.finditer(re, s, re.IGNORECASE), searching from offset pos
FindIter(re, s, pos) == TakeMatches([i \in pos..Len(s) |-> Ends(re, s, i)])

-----------------------------------------------------------------------------
(* The taxonomy tables, as the class body sets them *)

\* a pattern string of the class body and what re compiles it to
Pattern(src, re) == [pattern |-> src, re |-> re]

Guaranteed == <<Lit("guarantee"), Opt("d"), WS>>

CompiledPatterns == <<
    [type |-> "guaranteed_returns", patterns |-> <<
        Pattern("guaranteed?\\s+returns?", Guaranteed \o <<Lit("return"), Opt("s")>>),
        Pattern("guaranteed?\\s+\\d+%", Guaranteed \o <<DIG, Lit("%")>>),
        Pattern("guaranteed?\\s+profit", Guaranteed \o <<Lit("profit")>>),
        Pattern("risk-free\\s+returns?", <<Lit("risk-free"), WS, Lit("return"), Opt("s")>>),
        Pattern("no\\s+risk", <<Lit("no"), WS, Lit("risk")>>),
        Pattern("cannot\\s+lose", <<Lit("cannot"), WS, Lit("lose")>>),
        Pattern("will\\s+definitely", <<Lit("will"), WS, Lit("definitely")>>) >>],
    [type |-> "specific_predictions", patterns |-> <<
        Pattern("will\\s+(definitely|certainly|surely)\\s+(rise|increase|go\\s+up|gain)",
                <<Lit("will"), WS,
                  Alt(<< <<Lit("definitely")>>, <<Lit("certainly")>>, <<Lit("surely")>> >>),
                  WS,
                  Alt(<< <<Lit("rise")>>, <<Lit("increase")>>,
                         <<Lit("go"), WS, Lit("up")>>, <<Lit("gain")>> >>) >>),
        Pattern("guaranteed?\\s+to\\s+(double|triple)",
                Guaranteed \o <<Lit("to"), WS,
                                Alt(<< <<Lit("double")>>, <<Lit("triple")>> >>) >>),
        Pattern("certain\\s+to\\s+(outperform|beat)",
                <<Lit("certain"), WS, Lit("to"), WS,
                  Alt(<< <<Lit("outperform")>>, <<Lit("beat")>> >>) >>) >>],
    [type |-> "unlicensed_advice", patterns |-> <<
        Pattern("you\\s+should\\s+(buy|sell|purchase)\\s+(?!consider|evaluate)",
                <<Lit("you"), WS, Lit("should"), WS,
                  Alt(<< <<Lit("buy")>>, <<Lit("sell")>>, <<Lit("purchase")>> >>),
                  WS, NotAhead(<<"consider", "evaluate">>) >>),
        Pattern("I\\s+recommend\\s+buying", <<Lit("I"), WS, Lit("recommend"), WS, Lit("buying")>>),
        Pattern("invest\\s+all\\s+your", <<Lit("invest"), WS, Lit("all"), WS, Lit("your")>>) >>],
    [type |-> "market_manipulation", patterns |-> <<
        Pattern("insider\\s+information", <<Lit("insider"), WS, Lit("information")>>),
        Pattern("pump\\s+and\\s+dump", <<Lit("pump"), WS, Lit("and"), WS, Lit("dump")>>),
        Pattern("manipulate\\s+the\\s+market",
                <<Lit("manipulate"), WS, Lit("the"), WS, Lit("market")>>) >>] >>

\* the dict of the class body: the pattern strings of each violation type
PROHIBITED_PATTERNS ==
    [i \in 1..Len(CompiledPatterns) |->
        [type |-> CompiledPatterns[i].type,
         patterns |-> [j \in 1..Len(CompiledPatterns[i].patterns) |->
                          CompiledPatterns[i].patterns[j].pattern]]]

REQUIRED_DISCLAIMERS == <<
    [category |-> "ai_disclosure",
     keywords |-> <<"AI", "artificial intelligence", "probabilistic", "agentic AI">>],
    [category |-> "general_disclaimer",
     keywords |-> <<"not constitute", "educational", "informational purposes">>],
    [category |-> "professional_advice",
     keywords |-> <<"licensed", "qualified professional", "financial advisor">>],
    [category |-> "risk_warning",
     keywords |-> <<"risk", "loss", "principal", "past performance">>] >>

RISK_TYPES == <<"market risk", "credit risk", "liquidity risk", "volatility",
                "loss of principal", "interest rate risk", "inflation risk">>

\* the instance created at import: its attributes are the class's tables
ComplianceChecklistTool ==
    [PROHIBITED_PATTERNS |-> PROHIBITED_PATTERNS,
     REQUIRED_DISCLAIMERS |-> REQUIRED_DISCLAIMERS,
     RISK_TYPES |-> RISK_TYPES]

-----------------------------------------------------------------------------
(* The texts of a session *)

\* the sentences a candidate response is made of: the AI mention, the
\* probabilistic-nature term, the professional-consultation terms, a general
\* disclaimer, one risk type, two more risk types, and what the content types
\* ask for (a suitability phrase, the tax referral and the legal referral)
Sentences == <<"AI-generated", "probabilistic", "consult a licensed advisor",
               "educational", "market risk", "credit risk and volatility",
               "time horizon, tax professional, attorney">>

\* a prohibited claim, which a response may make several times: one pattern
\* matches it twice (its first two words, and the two after "and"), a second
\* matches "will definitely" and a third "will definitely rise"
ProhibitedSentence == "guaranteed returns and guaranteed return will definitely rise"

MaxRepeats == 1

RECURSIVE Pick(_, _)
\* the sentences with an index in S, in order, from index k on
Pick(S, k) ==
    IF k > Len(Sentences) THEN <<>>
    ELSE (IF k \in S THEN <<Sentences[k]>> ELSE <<>>) \o Pick(S, k + 1)

Repeat(w, n) == [i \in 1..n |-> w]

Texts ==
    {JoinWith(" ", Pick(S, 1) \o Repeat(ProhibitedSentence, n)) :
        S \in SUBSET (1..Len(Sentences)), n \in 0..MaxRepeats}

ResponseTypes == {"investment_advice", "general_info", "product_explanation",
                  "market_analysis", "tax_advice", "legal_advice"}

\* a value outside the enum the tool definition declares
UnknownType == "retirement_planning"

TypeValues == ResponseTypes \cup {UnknownType}

-----------------------------------------------------------------------------
(* str.lower, `in` and re.finditer are pure: their values on the session    *)
(* texts and on the terms and patterns of the code are tabulated once, and  *)
(* an evaluation looks its value up (and computes it for any other value).  *)

LowerOfText == [t \in Texts |-> str_lower(t)]

\* text.lower()
Lower(s) == IF s \in Texts THEN LowerOfText[s] ELSE str_lower(s)

LoweredTexts == {LowerOfText[t] : t \in Texts}

\* the strings the checks look for in a lowered text
Terms ==
    UNION {{str_lower(kw) : kw \in Elements(REQUIRED_DISCLAIMERS[i].keywords)} :
                i \in 1..Len(REQUIRED_DISCLAIMERS)}
    \cup Elements(RISK_TYPES)
    \cup {"ai", "artificial intelligence", "ai-generated", "ai-powered",
          "probabilistic", "may contain errors", "can make mistakes",
          "not a substitute", "consult", "licensed", "qualified professional",
          "risk tolerance", "time horizon", "financial situation", "investment objectives",
          "tax professional", "cpa", "legal", "attorney", "legal professional"}

TermInText == [h \in LoweredTexts |-> [w \in Terms |-> Search(h, w)]]

\* needle in hay
Contains(hay, needle) ==
    IF hay \in LoweredTexts /\ needle \in Terms THEN TermInText[hay][needle]
    ELSE Search(hay, needle)

\* any(term in text for term in terms)
AnyIn(terms, text) == \E k \in 1..Len(terms) : Contains(text, terms[k])

\* the pattern strings of the class's table
Patterns ==
    UNION {Elements(PROHIBITED_PATTERNS[i].patterns) : i \in 1..Len(PROHIBITED_PATTERNS)}

\* the compiled form of each pattern string
Compiled ==
    [src \in Patterns |->
        (CHOOSE p \in UNION {Elements(CompiledPatterns[i].patterns) :
                                i \in 1..Len(CompiledPatterns)} : p.pattern = src).re]

MatchesInText ==
    [h \in LoweredTexts |-> [src \in Patterns |-> FindIter(Compiled[src], h, 0)]]

\* re.finditer(pattern, s, re.IGNORECASE)
finditer(pattern, s) ==
    IF s \in LoweredTexts THEN MatchesInText[s][pattern]
    ELSE FindIter(Compiled[pattern], s, 0)

-----------------------------------------------------------------------------
(* The five checks; text is the str passed as response_text *)

Issue3(sev, issue, req) == [severity |-> sev, issue |-> issue, requirement |-> req]

\* a strict mode that demands the probabilistic term only when it is off
AiDisclosurePassedStrictnessInverted(has_ai_mention, has_probabilistic, has_professional_advice_warning, strict) ==
    /\ has_ai_mention
    /\ (has_probabilistic \/ strict)
    /\ has_professional_advice_warning

\* the expression bound to `passed`
AiDisclosurePassed(has_ai_mention, has_probabilistic, has_professional_advice_warning, strict) ==
    /\ has_ai_mention
    /\ (has_probabilistic \/ ~strict)
    /\ has_professional_advice_warning

\* a probabilistic-nature issue emitted whatever the strictness
AiDisclosureIssuesAnyStrictness(has_ai_mention, has_probabilistic, has_professional_advice_warning, strict) ==
    (IF ~has_ai_mention
     THEN <<Issue3("CRITICAL", "Missing AI system disclosure",
                   "Must disclose that response is AI-generated")>>
     ELSE <<>>)
    \o (IF ~has_probabilistic
        THEN <<Issue3("CRITICAL", "Missing probabilistic nature disclosure",
              "Must warn that AI systems are probabilistic and can make mistakes")>>
        ELSE <<>>)
    \o (IF ~has_professional_advice_warning
        THEN <<Issue3("HIGH", "Missing professional advice consultation warning",
                      "Must advise users to consult licensed professionals")>>
        ELSE <<>>)

\* the list `issues`, after the three appends
AiDisclosureIssues(has_ai_mention, has_probabilistic, has_professional_advice_warning, strict) ==
    (IF ~has_ai_mention
     THEN <<Issue3("CRITICAL", "Missing AI system disclosure",
                   "Must disclose that response is AI-generated")>>
     ELSE <<>>)
    \o (IF ~has_probabilistic /\ strict
        THEN <<Issue3("CRITICAL", "Missing probabilistic nature disclosure",
              "Must warn that AI systems are probabilistic and can make mistakes")>>
        ELSE <<>>)
    \o (IF ~has_professional_advice_warning
        THEN <<Issue3("HIGH", "Missing professional advice consultation warning",
                      "Must advise users to consult licensed professionals")>>
        ELSE <<>>)

\* the dict returned, from the three flags
AiDisclosureResult(has_ai_mention, has_probabilistic, has_professional_advice_warning, strict) ==
    [passed |-> AiDisclosurePassed(has_ai_mention, has_probabilistic,
                                   has_professional_advice_warning, strict),
     has_ai_mention |-> has_ai_mention,
     has_probabilistic_warning |-> has_probabilistic,
     has_professional_advice_warning |-> has_professional_advice_warning,
     issues |-> AiDisclosureIssues(has_ai_mention, has_probabilistic,
                                   has_professional_advice_warning, strict)]

\* the three flags, from text_lower
AiDisclosureIn(text_lower, strict) ==
    AiDisclosureResult(
        AnyIn(<<"ai", "artificial intelligence", "ai-generated", "ai-powered">>, text_lower),
        AnyIn(<<"probabilistic", "may contain errors", "can make mistakes">>, text_lower),
        AnyIn(<<"not a substitute", "consult", "licensed", "qualified professional">>,
              text_lower),
        strict)

_check_ai_disclosure(self, text, strict) == AiDisclosureIn(Lower(text), strict)

\* the issue appended for one match of one pattern (the body of the inner loop)
Violation(violation_type, pattern, text, text_lower, match) ==
    [severity |-> "CRITICAL",
     type |-> violation_type,
     pattern |-> pattern,
     matched_text |-> Slice(text_lower, match.start, match.end),
     context |-> Strip(Slice(text,
                             IF match.start - 30 > 0 THEN match.start - 30 ELSE 0,
                             IF match.end + 30 < Len(text) THEN match.end + 30 ELSE Len(text))),
     regulation |-> "SEC/FINRA regulations prohibit guarantees and misleading statements"]

\* a loop that reports the first match of a pattern only
MatchViolationsFirstOnly(violation_type, pattern, text, text_lower, matches) ==
    IF Len(matches) = 0 THEN <<>>
    ELSE <<Violation(violation_type, pattern, text, text_lower, matches[1])>>

\* `for match in matches`
MatchViolations(violation_type, pattern, text, text_lower, matches) ==
    [m \in 1..Len(matches) |->
        Violation(violation_type, pattern, text, text_lower, matches[m])]

\* the matches of one pattern and their issues
PatternViolations(violation_type, pattern, text, text_lower) ==
    MatchViolations(violation_type, pattern, text, text_lower, finditer(pattern, text_lower))

RECURSIVE TypeViolations(_, _, _, _)
\* `for pattern in patterns` for one violation type
TypeViolations(violation_type, patterns, text, text_lower) ==
    IF Len(patterns) = 0 THEN <<>>
    ELSE PatternViolations(violation_type, Head(patterns), text, text_lower)
            \o TypeViolations(violation_type, Tail(patterns), text, text_lower)

RECURSIVE AllViolations(_, _, _)
\* `for violation_type, patterns in self.PROHIBITED_PATTERNS.items()`
AllViolations(table, text, text_lower) ==
    IF Len(table) = 0 THEN <<>>
    ELSE TypeViolations(Head(table).type, Head(table).patterns, text, text_lower)
            \o AllViolations(Tail(table), text, text_lower)

\* the dict returned, from the list detected_violations
ProhibitedContentResult(detected_violations) ==
    [passed |-> Len(detected_violations) = 0,
     violations_detected |-> Len(detected_violations),
     issues |-> detected_violations]

_check_prohibited_content(self, text) ==
    ProhibitedContentResult(AllViolations(self.PROHIBITED_PATTERNS, text, Lower(text)))

\* has_disclaimer, for each category of the table in order
HasDisclaimer(table, text_lower) ==
    [i \in 1..Len(table) |->
        \E k \in 1..Len(table[i].keywords) :
            Contains(text_lower, Lower(table[i].keywords[k]))]

RECURSIVE Categories(_, _, _, _)
\* the categories of the table from index i on, in order, whose has_disclaimer is `want`
Categories(table, has, want, i) ==
    IF i > Len(table) THEN <<>>
    ELSE (IF has[i] = want THEN <<table[i].category>> ELSE <<>>)
            \o Categories(table, has, want, i + 1)

\* the content-specific requirements appended to `missing`
ContentSpecificMissing(text_lower, rtype) ==
    (IF rtype = "tax_advice" /\ ~Contains(text_lower, "tax professional")
     THEN <<"tax_advice_limitation">> ELSE <<>>)
    \o (IF /\ rtype = "legal_advice"
           /\ ~Contains(text_lower, "legal")
           /\ ~Contains(text_lower, "attorney")
        THEN <<"legal_advice_limitation">> ELSE <<>>)

\* a result that demands every disclaimer whatever the strictness
RequiredDisclaimersResultAlwaysAll(present, missing, total_required, strict) ==
    [passed |-> Len(missing) = 0,
     present |-> present,
     missing |-> missing,
     total_required |-> total_required]

\* the dict returned, from the lists present and missing
RequiredDisclaimersResult(present, missing, total_required, strict) ==
    [passed |-> IF strict THEN Len(missing) = 0 ELSE Len(present) >= 2,
     present |-> present,
     missing |-> missing,
     total_required |-> total_required]

\* the lists present and missing, from has_disclaimer of each category
RequiredDisclaimersFrom(table, has, text_lower, rtype, strict) ==
    RequiredDisclaimersResult(
        Categories(table, has, TRUE, 1),
        Categories(table, has, FALSE, 1) \o ContentSpecificMissing(text_lower, rtype),
        Len(table), strict)

RequiredDisclaimersIn(table, text_lower, rtype, strict) ==
    RequiredDisclaimersFrom(table, HasDisclaimer(table, text_lower), text_lower, rtype, strict)

_check_required_disclaimers(self, text, rtype, strict) ==
    RequiredDisclaimersIn(self.REQUIRED_DISCLAIMERS, Lower(text), rtype, strict)

\* `risk_type in text_lower`, for each risk type of the list in order
HasRisk(list, text_lower) == [i \in 1..Len(list) |-> Contains(text_lower, list[i])]

RECURSIVE Risks(_, _, _, _)
\* the risk types of the list from index i on, in order, whose presence is `want`
Risks(list, has, want, i) ==
    IF i > Len(list) THEN <<>>
    ELSE (IF has[i] = want THEN <<list[i]>> ELSE <<>>) \o Risks(list, has, want, i + 1)

StrictMinRisks == 3

RelaxedMinRisks == 1

\* a result that passes only above the minimum
RiskDisclosureResultAboveMinimum(disclosed_risks, missing_risks, min_required) ==
    [passed |-> Len(disclosed_risks) > min_required,
     disclosed_risks |-> disclosed_risks,
     missing_risks |-> IF ~(Len(disclosed_risks) > min_required) THEN missing_risks ELSE <<>>,
     disclosure_count |-> Len(disclosed_risks),
     minimum_required |-> min_required]

\* a result that lists the missing risk types whether or not it passed
RiskDisclosureResultMissingKept(disclosed_risks, missing_risks, min_required) ==
    [passed |-> Len(disclosed_risks) >= min_required,
     disclosed_risks |-> disclosed_risks,
     missing_risks |-> missing_risks,
     disclosure_count |-> Len(disclosed_risks),
     minimum_required |-> min_required]

\* the dict returned, from the two lists and min_required
RiskDisclosureResult(disclosed_risks, missing_risks, min_required) ==
    [passed |-> Len(disclosed_risks) >= min_required,
     disclosed_risks |-> disclosed_risks,
     missing_risks |-> IF ~(Len(disclosed_risks) >= min_required) THEN missing_risks ELSE <<>>,
     disclosure_count |-> Len(disclosed_risks),
     minimum_required |-> min_required]

\* a minimum that asks for more risk types when strict mode is off
RiskDisclosureFromStrictnessInverted(list, has, strict) ==
    RiskDisclosureResult(Risks(list, has, TRUE, 1), Risks(list, has, FALSE, 1),
                         IF strict THEN RelaxedMinRisks ELSE StrictMinRisks)

\* the two lists, from the presence of each risk type
RiskDisclosureFrom(list, has, strict) ==
    RiskDisclosureResult(Risks(list, has, TRUE, 1), Risks(list, has, FALSE, 1),
                         IF strict THEN StrictMinRisks ELSE RelaxedMinRisks)

_check_risk_disclosure(self, text, strict) ==
    RiskDisclosureFrom(self.RISK_TYPES, HasRisk(self.RISK_TYPES, Lower(text)), strict)

\* a content type check without the legal advice branch
ContentTypeIssuesLegalSkipped(text_lower, rtype) ==
    IF rtype = "investment_advice" THEN
        IF ~AnyIn(<<"risk tolerance", "time horizon", "financial situation",
                    "investment objectives">>, text_lower)
        THEN <<Issue3("HIGH", "Investment advice lacks suitability considerations",
             "Must consider client's risk tolerance, time horizon, and financial situation")>>
        ELSE <<>>
    ELSE IF rtype = "tax_advice" THEN
        IF ~Contains(text_lower, "tax professional") /\ ~Contains(text_lower, "cpa")
        THEN <<Issue3("CRITICAL", "Tax advice without proper disclaimer",
                      "Must direct users to consult tax professionals/CPAs")>>
        ELSE <<>>
    ELSE <<>>

\* the list `issues` of the content type check
ContentTypeIssues(text_lower, rtype) ==
    IF rtype = "investment_advice" THEN
        IF ~AnyIn(<<"risk tolerance", "time horizon", "financial situation",
                    "investment objectives">>, text_lower)
        THEN <<Issue3("HIGH", "Investment advice lacks suitability considerations",
             "Must consider client's risk tolerance, time horizon, and financial situation")>>
        ELSE <<>>
    ELSE IF rtype = "tax_advice" THEN
        IF ~Contains(text_lower, "tax professional") /\ ~Contains(text_lower, "cpa")
        THEN <<Issue3("CRITICAL", "Tax advice without proper disclaimer",
                      "Must direct users to consult tax professionals/CPAs")>>
        ELSE <<>>
    ELSE IF rtype = "legal_advice" THEN
        IF ~Contains(text_lower, "attorney") /\ ~Contains(text_lower, "legal professional")
        THEN <<Issue3("CRITICAL", "Legal advice without proper disclaimer",
                      "Must direct users to consult licensed attorneys")>>
        ELSE <<>>
    ELSE <<>>

\* the dict returned, from the list `issues`
ContentTypeResult(issues) == [passed |-> Len(issues) = 0, issues |-> issues]

_check_content_type_specific(self, text, rtype) ==
    ContentTypeResult(ContentTypeIssues(Lower(text), rtype))

-----------------------------------------------------------------------------
(* The checks are pure functions of the singleton's tables and their        *)
(* arguments: their results on the session texts are tabulated once, and a  *)
(* call looks its result up (and computes it for any other argument).       *)

AiDisclosureResults ==
    [t \in Texts |-> [s \in BOOLEAN |-> _check_ai_disclosure(ComplianceChecklistTool, t, s)]]

ProhibitedContentResults ==
    [t \in Texts |-> _check_prohibited_content(ComplianceChecklistTool, t)]

RequiredDisclaimersResults ==
    [t \in Texts |-> [r \in TypeValues |-> [s \in BOOLEAN |->
        _check_required_disclaimers(ComplianceChecklistTool, t, r, s)]]]

RiskDisclosureResults ==
    [t \in Texts |-> [s \in BOOLEAN |-> _check_risk_disclosure(ComplianceChecklistTool, t, s)]]

ContentTypeSpecificResults ==
    [t \in Texts |-> [r \in TypeValues |->
        _check_content_type_specific(ComplianceChecklistTool, t, r)]]

Tabulated(self, text) == self = ComplianceChecklistTool /\ text \in Texts

ai_disclosure_result(self, text, strict) ==
    IF Tabulated(self, text) THEN AiDisclosureResults[text][strict]
    ELSE _check_ai_disclosure(self, text, strict)

prohibited_result(self, text) ==
    IF Tabulated(self, text) THEN ProhibitedContentResults[text]
    ELSE _check_prohibited_content(self, text)

disclaimer_result(self, text, rtype, strict) ==
    IF Tabulated(self, text) /\ rtype \in TypeValues
    THEN RequiredDisclaimersResults[text][rtype][strict]
    ELSE _check_required_disclaimers(self, text, rtype, strict)

risk_result(self, text, strict) ==
    IF Tabulated(self, text) THEN RiskDisclosureResults[text][strict]
    ELSE _check_risk_disclosure(self, text, strict)

type_specific_result(self, text, rtype) ==
    IF Tabulated(self, text) /\ rtype \in TypeValues
    THEN ContentTypeSpecificResults[text][rtype]
    ELSE _check_content_type_specific(self, text, rtype)


-----------------------------------------------------------------------------
(* validate_compliance, step by step *)

Threads == {"t1", "t2"}

Main == "t1"

\* one results dict for every call, as an attribute of the singleton would be
FrameOfSingleton(c) == Main

\* where a call's local variable validation_results lives: in the call's own frame
Frame(c) == c

Undefined == [undefined |-> TRUE]

Unbound == [type |-> "unbound", value |-> ""]

NoException == [raised |-> FALSE, message |-> ""]

Exception(msg) == [raised |-> TRUE, message |-> msg]

\* str(e) for the AttributeError of None.lower()
AttributeErrorMessage == "'NoneType' object has no attribute 'lower'"

\* str(e) of an exception raised by the runtime inside the try block: MemoryError()
RuntimeErrorMessages == {""}

TrySteps == {"ai_disclosure", "prohibited_content", "required_disclaimers",
             "risk_disclosure", "content_type_specific", "aggregate"}

EmptyDict == <<>>

\* d[k] = v
DictSet(d, k, v) == (k :> v) @@ d

\* what the caller keeps of an evaluation: its arguments and its report
NoPrev == [request |-> Undefined, report |-> Undefined]

\* a results dict whose issues_found list outlives the call (a list shared
\* between calls, as a mutable default would be)
NewValidationResultsSharedIssues(rtype, strict) ==
    [overall_status |-> "PENDING",
     validation_timestamp |-> "Current validation run",
     response_type |-> rtype,
     strict_mode |-> strict,
     checks_performed |-> EmptyDict,
     issues_found |-> IF prev = NoPrev THEN <<>> ELSE prev.report.issues_found,
     missing_elements |-> <<>>,
     recommendations |-> <<>>]

\* the dict literal bound to validation_results
NewValidationResults(rtype, strict) ==
    [overall_status |-> "PENDING",
     validation_timestamp |-> "Current validation run",
     response_type |-> rtype,
     strict_mode |-> strict,
     checks_performed |-> EmptyDict,
     issues_found |-> <<>>,
     missing_elements |-> <<>>,
     recommendations |-> <<>>]

\* an error dict that drops str(e)
ErrorReportWithoutMessage(msg) ==
    [overall_status |-> "ERROR",
     error |-> "Validation error",
     recommendation |-> "Manual review required due to validation error"]

\* the dict the except clause returns
ErrorReport(msg) ==
    [overall_status |-> "ERROR",
     error |-> msg,
     recommendation |-> "Manual review required due to validation error"]

\* an AI disclosure block that asks for the statement whatever the check found
AfterAiDisclosureUnguarded(vr, result) ==
    [vr EXCEPT
        !.checks_performed = DictSet(@, "ai_disclosure", result),
        !.issues_found = IF ~result.passed THEN @ \o result.issues ELSE @,
        !.missing_elements = Append(@, "AI disclosure statement")]

\* the effect of the AI disclosure block on validation_results, given the
\* check's result
AfterAiDisclosure(vr, result) ==
    [vr EXCEPT
        !.checks_performed = DictSet(@, "ai_disclosure", result),
        !.issues_found = IF ~result.passed THEN @ \o result.issues ELSE @,
        !.missing_elements =
            IF ~result.passed THEN Append(@, "AI disclosure statement") ELSE @]

\* the effect of the prohibited content block
AfterProhibitedContent(vr, result) ==
    [vr EXCEPT
        !.checks_performed = DictSet(@, "prohibited_content", result),
        !.issues_found = IF ~result.passed THEN @ \o result.issues ELSE @]

\* the effect of the required disclaimers block
AfterRequiredDisclaimers(vr, result) ==
    [vr EXCEPT
        !.checks_performed = DictSet(@, "required_disclaimers", result),
        !.missing_elements = IF ~result.passed THEN @ \o result.missing ELSE @]

\* a gate that lets every content type through
RiskDisclosureAppliesAlways(rtype) == TRUE

\* a gate written as the list of the content types left out
RiskDisclosureAppliesUnlessListed(rtype) ==
    rtype \notin {"general_info", "tax_advice", "legal_advice"}

\* `if response_type in [...]`
RiskDisclosureApplies(rtype) ==
    rtype \in {"investment_advice", "product_explanation", "market_analysis"}

\* a risk disclosure block that records its result and leaves missing_elements alone
AfterRiskDisclosureMissingDropped(vr, result) ==
    [vr EXCEPT !.checks_performed = DictSet(@, "risk_disclosure", result)]

\* the effect of the risk disclosure block, when it applies
AfterRiskDisclosure(vr, result) ==
    [vr EXCEPT
        !.checks_performed = DictSet(@, "risk_disclosure", result),
        !.missing_elements = IF ~result.passed THEN @ \o result.missing_risks ELSE @]

\* a content type block that records its result and leaves issues_found alone
AfterContentTypeSpecificIssuesDropped(vr, result) ==
    [vr EXCEPT !.checks_performed = DictSet(@, "content_type_specific", result)]

\* the effect of the content type block
AfterContentTypeSpecific(vr, result) ==
    [vr EXCEPT
        !.checks_performed = DictSet(@, "content_type_specific", result),
        !.issues_found = IF ~result.passed THEN @ \o result.issues ELSE @]

\* a critical_issues list without the prohibited content entry
CriticalIssuesAiOnly(vr) ==
    <<~vr.checks_performed["ai_disclosure"].passed>>

\* the list critical_issues
CriticalIssues(vr) ==
    <<~vr.checks_performed["ai_disclosure"].passed,
      ~vr.checks_performed["prohibited_content"].passed>>

\* a status chain that looks at missing_elements first
OverallStatusMissingFirst(critical_issues, missing_elements) ==
    IF Len(missing_elements) > 0 THEN "REQUIRES_MODIFICATION"
    ELSE IF \E k \in 1..Len(critical_issues) : critical_issues[k] THEN "REJECTED"
    ELSE "APPROVED"

\* the if / elif / else of "Determine overall status"
OverallStatus(critical_issues, missing_elements) ==
    IF \E k \in 1..Len(critical_issues) : critical_issues[k] THEN "REJECTED"
    ELSE IF Len(missing_elements) > 0 THEN "REQUIRES_MODIFICATION"
    ELSE "APPROVED"

\* the first recommendation, by status
StatusRecommendation(status) ==
    CASE status = "REJECTED" ->
            "CRITICAL: Response contains critical compliance violations and must be rejected or significantly modified."
      [] status = "REQUIRES_MODIFICATION" ->
            "Response requires modifications to add missing compliance elements."
      [] status = "APPROVED" -> "Response meets compliance requirements."

\* a status chain without its else branch: a clean report keeps the status
\* it was created with
WithStatusUnlessClean(vr, status) ==
    [vr EXCEPT
        !.overall_status = IF status = "APPROVED" THEN @ ELSE status,
        !.recommendations =
            Append(@, StatusRecommendation(status))
            \o (IF Len(vr.missing_elements) > 0
                THEN <<"Add the following elements: " \o JoinWith(", ", vr.missing_elements)>>
                ELSE <<>>)]

\* the status assignment and "Add specific recommendations"
WithStatus(vr, status) ==
    [vr EXCEPT
        !.overall_status = status,
        !.recommendations =
            Append(@, StatusRecommendation(status))
            \o (IF Len(vr.missing_elements) > 0
                THEN <<"Add the following elements: " \o JoinWith(", ", vr.missing_elements)>>
                ELSE <<>>)]

\* "Determine overall status" and "Add specific recommendations"
AfterAggregate(vr) ==
    WithStatus(vr, OverallStatus(CriticalIssues(vr), vr.missing_elements))

\* an exception leaves the try block for the except clause
RaiseIn(c, msg) ==
    /\ pc' = [pc EXCEPT ![c] = "except"]
    /\ exc' = [exc EXCEPT ![c] = Exception(msg)]
    /\ UNCHANGED <<compliance_checklist_tool, candidates, args, validation_results, ret, prev>>

\* a step of the try block that calls text.lower() and then rebinds validation_results
TryStep(c, here, next, vr) ==
    /\ pc[c] = here
    /\ IF response_text[c].type # "str"
       THEN RaiseIn(c, AttributeErrorMessage)
       ELSE /\ validation_results' = [validation_results EXCEPT ![Frame(c)] = vr]
            /\ pc' = [pc EXCEPT ![c] = next]
            /\ UNCHANGED <<compliance_checklist_tool, candidates, args, ret, exc, prev>>

\* the caller invokes validate_compliance(text, rtype, strict)
Call(c) ==
    /\ pc[c] = "idle"
    /\ \E text \in candidates, rtype \in TypeValues, strict \in BOOLEAN :
        /\ response_text' = [response_text EXCEPT ![c] = text]
        /\ response_type' = [response_type EXCEPT ![c] = rtype]
        /\ strict_mode' = [strict_mode EXCEPT ![c] = strict]
        /\ validation_results' =
              [validation_results EXCEPT ![Frame(c)] = NewValidationResults(rtype, strict)]
    /\ pc' = [pc EXCEPT ![c] = "ai_disclosure"]
    /\ UNCHANGED <<compliance_checklist_tool, candidates, ret, exc, prev>>

CheckAiDisclosure(c) ==
    TryStep(c, "ai_disclosure", "prohibited_content",
            AfterAiDisclosure(validation_results[Frame(c)],
                ai_disclosure_result(compliance_checklist_tool, response_text[c].value,
                                     strict_mode[c])))

CheckProhibitedContent(c) ==
    TryStep(c, "prohibited_content", "required_disclaimers",
            AfterProhibitedContent(validation_results[Frame(c)],
                prohibited_result(compliance_checklist_tool, response_text[c].value)))

CheckRequiredDisclaimers(c) ==
    TryStep(c, "required_disclaimers", "risk_disclosure",
            AfterRequiredDisclaimers(validation_results[Frame(c)],
                disclaimer_result(compliance_checklist_tool, response_text[c].value,
                                  response_type[c], strict_mode[c])))

CheckRiskDisclosure(c) ==
    /\ pc[c] = "risk_disclosure"
    /\ IF RiskDisclosureApplies(response_type[c])
       THEN TryStep(c, "risk_disclosure", "content_type_specific",
                    AfterRiskDisclosure(validation_results[Frame(c)],
                        risk_result(compliance_checklist_tool, response_text[c].value,
                                    strict_mode[c])))
       ELSE /\ pc' = [pc EXCEPT ![c] = "content_type_specific"]
            /\ UNCHANGED <<compliance_checklist_tool, candidates, args, validation_results, ret, exc, prev>>

CheckContentTypeSpecific(c) ==
    TryStep(c, "content_type_specific", "aggregate",
            AfterContentTypeSpecific(validation_results[Frame(c)],
                type_specific_result(compliance_checklist_tool, response_text[c].value,
                                     response_type[c])))

\* status, recommendations and `return validation_results`
Aggregate(c) ==
    /\ pc[c] = "aggregate"
    /\ ret' = [ret EXCEPT ![c] = AfterAggregate(validation_results[Frame(c)])]
    /\ validation_results' = [validation_results EXCEPT ![Frame(c)] = Undefined]
    /\ pc' = [pc EXCEPT ![c] = "returned"]
    /\ UNCHANGED <<compliance_checklist_tool, candidates, args, exc, prev>>

\* the runtime raises inside the try block
Fault(c) ==
    /\ pc[c] \in TrySteps
    /\ \E msg \in RuntimeErrorMessages : RaiseIn(c, msg)

\* an except clause that also rebinds the argument response_text
ExceptRebindingText(c) ==
    /\ pc[c] = "except"
    /\ ret' = [ret EXCEPT ![c] = ErrorReport(exc[c].message)]
    /\ validation_results' = [validation_results EXCEPT ![Frame(c)] = Undefined]
    /\ pc' = [pc EXCEPT ![c] = "returned"]
    /\ response_text' = [response_text EXCEPT ![c] = Str("")]
    /\ UNCHANGED <<compliance_checklist_tool, candidates, response_type, strict_mode, exc, prev>>

\* except Exception as e: return the error dict
Except(c) ==
    /\ pc[c] = "except"
    /\ ret' = [ret EXCEPT ![c] = ErrorReport(exc[c].message)]
    /\ validation_results' = [validation_results EXCEPT ![Frame(c)] = Undefined]
    /\ pc' = [pc EXCEPT ![c] = "returned"]
    /\ UNCHANGED <<compliance_checklist_tool, candidates, args, exc, prev>>

Request(c) ==
    [response_text |-> response_text[c], response_type |-> response_type[c],
     strict_mode |-> strict_mode[c]]

\* the caller takes the report, and may keep it (when it is not an ERROR report)
\* in place of the one it kept before; the call's arguments go out of scope
Consume(c) ==
    /\ pc[c] = "returned"
    /\ \E keep \in BOOLEAN :
          prev' = IF keep /\ ret[c].overall_status # "ERROR"
                  THEN [request |-> Request(c), report |-> ret[c]]
                  ELSE prev
    /\ pc' = [pc EXCEPT ![c] = "idle"]
    /\ ret' = [ret EXCEPT ![c] = Undefined]
    /\ response_text' = [response_text EXCEPT ![c] = Unbound]
    /\ response_type' = [response_type EXCEPT ![c] = ""]
    /\ strict_mode' = [strict_mode EXCEPT ![c] = FALSE]
    /\ exc' = [exc EXCEPT ![c] = NoException]
    /\ UNCHANGED <<compliance_checklist_tool, candidates, validation_results>>

InitThreads ==
    /\ pc = [c \in Threads |-> "idle"]
    /\ response_text = [c \in Threads |-> Unbound]
    /\ response_type = [c \in Threads |-> ""]
    /\ strict_mode = [c \in Threads |-> FALSE]
    /\ validation_results = [c \in Threads |-> Undefined]
    /\ ret = [c \in Threads |-> Undefined]
    /\ exc = [c \in Threads |-> NoException]
    /\ prev = NoPrev

Init ==
    /\ compliance_checklist_tool = ComplianceChecklistTool
    /\ candidates \in {{v} : v \in {Str(t) : t \in Texts} \cup {None}}
    /\ InitThreads

Next ==
    \/ Call(Main)
    \/ CheckAiDisclosure(Main)
    \/ CheckProhibitedContent(Main)
    \/ CheckRequiredDisclaimers(Main)
    \/ CheckRiskDisclosure(Main)
    \/ CheckContentTypeSpecific(Main)
    \/ Aggregate(Main)
    \/ Fault(Main)
    \/ Except(Main)
    \/ Consume(Main)

Spec == Init /\ [][Next]_vars

\* a step of thread c, for a caller that keeps no report
StepOf(c) ==
    \/ Call(c)
    \/ CheckAiDisclosure(c)
    \/ CheckProhibitedContent(c)
    \/ CheckRequiredDisclaimers(c)
    \/ CheckRiskDisclosure(c)
    \/ CheckContentTypeSpecific(c)
    \/ Aggregate(c)
    \/ Fault(c)
    \/ Except(c)
    \/ Consume(c) /\ prev' = prev

\* evaluations one at a time, each on its own: the caller keeps no report
OnceSpec == Init /\ [][StepOf(Main)]_vars

-----------------------------------------------------------------------------
(* Two callers, one thread each, on the singleton: their steps interleave   *)
(* in any order, and nothing in the code takes a lock.                      *)

\* the texts of the concurrent callers: one with every disclosure and no
\* prohibited phrase, one with the prohibited phrase and nothing else
ConcTexts == {JoinWith(" ", Pick(1..Len(Sentences), 1)), ProhibitedSentence}

ConcInit ==
    /\ compliance_checklist_tool = ComplianceChecklistTool
    /\ candidates = {Str(t) : t \in ConcTexts} \cup {None}
    /\ InitThreads

\* a step of either thread
ConcNext == \E c \in Threads : StepOf(c)

ConcSpec == ConcInit /\ [][ConcNext]_vars

\* the next step of a call that has started: a check, the aggregation and
\* return, or the except clause (a raise by the runtime is not among them)
Proceed(c) ==
    \/ CheckAiDisclosure(c)
    \/ CheckProhibitedContent(c)
    \/ CheckRequiredDisclaimers(c)
    \/ CheckRiskDisclosure(c)
    \/ CheckContentTypeSpecific(c)
    \/ Aggregate(c)
    \/ Except(c)

\* one caller on the texts above; the thread that is inside a call keeps
\* running: the code has no loop that waits and takes no lock
FairSpec == ConcInit /\ [][Next]_vars /\ WF_vars(Proceed(Main))

-----------------------------------------------------------------------------
(* A session on short phrases: the unlicensed_advice patterns at the end   *)
(* of a text, before punctuation and before the excluded words, and the     *)
(* referral terms of the tax and legal checks one at a time                 *)

PhraseTexts ==
    {"you should buy", "you should buy.", "you should buy now",
     "Today You Should Buy  stocks", "you should buy ", "you should consider buying",
     "you should buy consider it", "you should sell evaluate", "I recommend buying",
     "ask a CPA", "ask a tax professional", "ask an attorney", "ask a legal professional"}

PhraseInit ==
    /\ compliance_checklist_tool = ComplianceChecklistTool
    /\ candidates \in {{Str(t)} : t \in PhraseTexts}
    /\ InitThreads

PhraseSpec == PhraseInit /\ [][Next]_vars

-----------------------------------------------------------------------------
(* Properties *)

Returned(c) == pc[c] = "returned"

\* the call returned a report built by the checks (not the except clause's)
Evaluated(c) == Returned(c) /\ ret[c].overall_status # "ERROR"

\* the results of the checks on the arguments of call c
AiOf(c) == ai_disclosure_result(ComplianceChecklistTool, response_text[c].value, strict_mode[c])

ProhibitedOf(c) == prohibited_result(ComplianceChecklistTool, response_text[c].value)

DisclaimersOf(c) ==
    disclaimer_result(ComplianceChecklistTool, response_text[c].value, response_type[c],
                      strict_mode[c])

TypeSpecificOf(c) ==
    type_specific_result(ComplianceChecklistTool, response_text[c].value, response_type[c])

\* the issues of every check of a report that emits issues
CheckIssues(r) ==
    LET names == DOMAIN r.checks_performed
                    \cap {"ai_disclosure", "prohibited_content", "content_type_specific"}
    IN  UNION {{r.checks_performed[n].issues[k] : k \in 1..Len(r.checks_performed[n].issues)} :
                    n \in names}

\* C1: in every report that is not an ERROR report, overall_status is REJECTED
\* exactly when the AI-disclosure check or the prohibited-content check failed
\* on the call's arguments; otherwise it is REQUIRES_MODIFICATION exactly when
\* missing_elements is non-empty; otherwise it is APPROVED.
C1_StatusPrecedence ==
    \A c \in Threads : Evaluated(c) =>
        LET r == ret[c]
            critical == ~AiOf(c).passed \/ ~ProhibitedOf(c).passed
        IN  /\ (r.overall_status = "REJECTED") <=> critical
            /\ ~critical =>
                 ((r.overall_status = "REQUIRES_MODIFICATION") <=> (Len(r.missing_elements) > 0))
            /\ (~critical /\ Len(r.missing_elements) = 0) => r.overall_status = "APPROVED"

\* a REQUIRES_MODIFICATION report, the caller holding a REJECTED report of the same text
C1_Witness ==
    /\ Evaluated(Main)
    /\ ret[Main].overall_status = "REQUIRES_MODIFICATION"
    /\ prev # NoPrev
    /\ prev.report.overall_status = "REJECTED"

\* some prohibited pattern matches the lowered text
ProhibitedMatch ==
    [t \in Texts |->
        \E i \in 1..Len(PROHIBITED_PATTERNS) :
            \E j \in 1..Len(PROHIBITED_PATTERNS[i].patterns) :
                Len(finditer(PROHIBITED_PATTERNS[i].patterns[j], Lower(t))) > 0]

\* C2: every report (not an ERROR report) of a text that some prohibited pattern
\* matches is REJECTED, for every content type and strictness and whatever the
\* other checks found.
C2_ProhibitedRejected ==
    \A c \in Threads :
        (Evaluated(c) /\ ProhibitedMatch[response_text[c].value]) =>
            ret[c].overall_status = "REJECTED"

\* a text with a prohibited phrase that passes every other check is REJECTED
C2_Witness ==
    /\ Evaluated(Main)
    /\ Contains(Lower(response_text[Main].value), "guaranteed returns")
    /\ AiOf(Main).passed /\ DisclaimersOf(Main).passed /\ TypeSpecificOf(Main).passed
    /\ Len(ret[Main].missing_elements) = 0
    /\ ret[Main].overall_status = "REJECTED"

\* C3 (as claimed): a report one of whose check results holds a CRITICAL issue
\* is REJECTED.
C3_CriticalRejected ==
    \A c \in Threads :
        (Evaluated(c) /\ \E i \in CheckIssues(ret[c]) : i.severity = "CRITICAL") =>
            ret[c].overall_status = "REJECTED"

\* C4 (as claimed): a report whose checks emitted issues, all of them of severity
\* HIGH, is not REJECTED.
C4_HighNeverRejected ==
    \A c \in Threads :
        (/\ Evaluated(c)
         /\ CheckIssues(ret[c]) # {}
         /\ \A i \in CheckIssues(ret[c]) : i.severity = "HIGH") =>
            ret[c].overall_status # "REJECTED"

\* C5: in every report that is not an ERROR report, every CRITICAL issue of a
\* check result is an element of issues_found (which is then non-empty).
C5_CriticalInIssuesFound ==
    \A c \in Threads : Evaluated(c) =>
        \A i \in CheckIssues(ret[c]) :
            i.severity = "CRITICAL" =>
                Len(ret[c].issues_found) > 0 /\ i \in Elements(ret[c].issues_found)

\* a report that is not REJECTED whose content-type check emitted a CRITICAL issue
C5_Witness ==
    /\ Evaluated(Main)
    /\ ret[Main].overall_status # "REJECTED"
    /\ \E i \in Elements(ret[Main].checks_performed["content_type_specific"].issues) :
            i.severity = "CRITICAL" /\ i \in Elements(ret[Main].issues_found)

\* C6: a report of the arguments of a report the caller kept from an earlier
\* evaluation, with any number of evaluations in between, equals the kept
\* report: status, check results, issues_found, missing_elements and
\* recommendations, in order.
C6_Idempotent ==
    \A c \in Threads :
        (Evaluated(c) /\ prev.request = Request(c)) => ret[c] = prev.report

\* a second report of the same arguments, with issues and missing elements
C6_Witness ==
    /\ Evaluated(Main)
    /\ prev.request = Request(Main)
    /\ Len(ret[Main].issues_found) > 1
    /\ Len(ret[Main].missing_elements) > 1

\* the kept report and the report of call c are of the same text and content
\* type, the kept one under strict mode and this one not
StrictThenRelaxed(c) ==
    /\ Evaluated(c)
    /\ prev # NoPrev
    /\ prev.request.response_text = response_text[c]
    /\ prev.request.response_type = response_type[c]
    /\ prev.request.strict_mode
    /\ ~strict_mode[c]

\* the same, the kept one relaxed and this one strict
RelaxedThenStrict(c) ==
    /\ Evaluated(c)
    /\ prev # NoPrev
    /\ prev.request.response_text = response_text[c]
    /\ prev.request.response_type = response_type[c]
    /\ ~prev.request.strict_mode
    /\ strict_mode[c]

\* C7: for the same text and content type, when the report under strict mode
\* is APPROVED the report without strict mode is APPROVED, in whichever order
\* the two were made.
C7_StrictnessMonotone ==
    \A c \in Threads :
        /\ (StrictThenRelaxed(c) /\ prev.report.overall_status = "APPROVED")
                => ret[c].overall_status = "APPROVED"
        /\ (RelaxedThenStrict(c) /\ ret[c].overall_status = "APPROVED")
                => prev.report.overall_status = "APPROVED"

\* a text APPROVED under strict mode, then evaluated without it
C7_Witness ==
    /\ StrictThenRelaxed(Main)
    /\ prev.report.overall_status = "APPROVED"
    /\ ret[Main].overall_status = "APPROVED"

\* C8: once a step of the try block has raised, the call is in the except
\* clause or has returned; what it returns is an ERROR report whose error is
\* the message of the exception, and a call returns an ERROR report only then.
C8_FailureReported ==
    \A c \in Threads :
        /\ exc[c].raised =>
              /\ pc[c] \in {"except", "returned"}
              /\ Returned(c) =>
                    /\ ret[c].overall_status = "ERROR"
                    /\ ret[c].error = exc[c].message
        /\ (Returned(c) /\ ret[c].overall_status = "ERROR") => exc[c].raised

\* the report of a call on None: the AttributeError of None.lower()
C8_Witness ==
    /\ Returned(Main)
    /\ exc[Main].raised
    /\ response_text[Main] = None
    /\ ret[Main].error = AttributeErrorMessage

\* the fields every report is said to carry
ReportFields ==
    {"overall_status", "checks_performed", "issues_found", "missing_elements",
     "recommendations"}

\* C9 (as claimed): every report a call returns, an ERROR report included,
\* carries overall_status, checks_performed, issues_found, missing_elements
\* and recommendations.
C9_ReportFields ==
    \A c \in Threads : Returned(c) => ReportFields \subseteq DOMAIN ret[c]

\* the severity and the name of each issue of a list, in order
SeverityAndIssue(issues) ==
    [k \in 1..Len(issues) |-> <<issues[k].severity, issues[k].issue>>]

\* C10: the AI-disclosure result of every report has passed exactly when the
\* AI mention is present, the professional-consultation term is present, and
\* the probabilistic term is present or strict mode is off; its issues are one
\* per unmet dimension (AI mention: CRITICAL; probabilistic term under strict
\* mode: CRITICAL; professional consultation: HIGH), none when it passed.
C10_AiDisclosure ==
    \A c \in Threads : Evaluated(c) =>
        LET result == ret[c].checks_performed["ai_disclosure"]
            ai == result.has_ai_mention
            prob == result.has_probabilistic_warning
            prof == result.has_professional_advice_warning
            strict == strict_mode[c]
        IN  /\ result.passed <=> (ai /\ (prob \/ ~strict) /\ prof)
            /\ SeverityAndIssue(result.issues) =
                    (IF ~ai THEN <<<<"CRITICAL", "Missing AI system disclosure">>>> ELSE <<>>)
                    \o (IF ~prob /\ strict
                        THEN <<<<"CRITICAL", "Missing probabilistic nature disclosure">>>>
                        ELSE <<>>)
                    \o (IF ~prof
                        THEN <<<<"HIGH", "Missing professional advice consultation warning">>>>
                        ELSE <<>>)
            /\ (Len(result.issues) = 0) <=> result.passed

\* a relaxed report of a text with the AI mention alone: the check failed
\* with the one HIGH issue, the probabilistic term missing and not demanded
C10_Witness ==
    /\ Evaluated(Main)
    /\ ~strict_mode[Main]
    /\ ~ret[Main].checks_performed["ai_disclosure"].has_probabilistic_warning
    /\ ~ret[Main].checks_performed["ai_disclosure"].passed
    /\ Len(ret[Main].checks_performed["ai_disclosure"].issues) = 1

\* the result of the risk disclosure check on the arguments of call c
RiskOf(c) == risk_result(ComplianceChecklistTool, response_text[c].value, strict_mode[c])

\* the issues of a list that name the pattern, in order
IssuesOfPattern(issues, pattern) ==
    LET names(i) == i.pattern = pattern IN SelectSeq(issues, names)

\* the issues of a list that come from the prohibited-content check: the ones
\* that carry a pattern
PatternIssues(issues) ==
    LET carries(i) == "pattern" \in DOMAIN i IN SelectSeq(issues, carries)

\* C11: the prohibited-content result of every report holds, for every pattern
\* of every category, one CRITICAL issue of that category per match of the
\* pattern in the lowered text, in the order of the matches, and no other
\* issue; violations_detected is the number of issues; the check passed
\* exactly when no pattern matches, and then its issue list is empty and no
\* issue of issues_found carries a pattern.
C11_ProhibitedIssues ==
    \A c \in Threads : Evaluated(c) =>
        LET result == ret[c].checks_performed["prohibited_content"]
            text_lower == Lower(response_text[c].value)
        IN  /\ \A i \in 1..Len(PROHIBITED_PATTERNS) :
                  \A j \in 1..Len(PROHIBITED_PATTERNS[i].patterns) :
                      LET pattern == PROHIBITED_PATTERNS[i].patterns[j]
                          matches == finditer(pattern, text_lower)
                          found == IssuesOfPattern(result.issues, pattern)
                      IN  /\ Len(found) = Len(matches)
                          /\ \A k \in 1..Len(found) :
                                /\ found[k].severity = "CRITICAL"
                                /\ found[k].type = PROHIBITED_PATTERNS[i].type
                                /\ found[k].matched_text =
                                      Slice(text_lower, matches[k].start, matches[k].end)
            /\ \A k \in 1..Len(result.issues) :
                  result.issues[k].pattern \in Patterns
            /\ result.violations_detected = Len(result.issues)
            /\ result.passed <=> ~ProhibitedMatch[response_text[c].value]
            /\ result.passed =>
                  /\ result.issues = <<>>
                  /\ PatternIssues(ret[c].issues_found) = <<>>
            /\ ~result.passed => PatternIssues(ret[c].issues_found) = result.issues

\* a report of a text that makes the prohibited claim: three patterns match,
\* the first of them twice and the two others on the same words
C11_Witness ==
    /\ Evaluated(Main)
    /\ ret[Main].checks_performed["prohibited_content"].violations_detected = 4
    /\ Len(IssuesOfPattern(ret[Main].checks_performed["prohibited_content"].issues,
                           "guaranteed?\\s+returns?")) = 2
    /\ \A q \in {"will\\s+definitely",
                  "will\\s+(definitely|certainly|surely)\\s+(rise|increase|go\\s+up|gain)"} :
          /\ q \in Patterns
          /\ Len(IssuesOfPattern(ret[Main].checks_performed["prohibited_content"].issues, q)) = 1

\* the general categories one of whose keywords is in the lowered text
CategoriesPresent(text_lower) ==
    {i \in 1..Len(REQUIRED_DISCLAIMERS) :
        \E kw \in Elements(REQUIRED_DISCLAIMERS[i].keywords) :
            Contains(text_lower, str_lower(kw))}

\* the content type's addendum is not satisfied by the lowered text
AddendumMissing(text_lower, rtype) ==
    \/ rtype = "tax_advice" /\ ~Contains(text_lower, "tax professional")
    \/ /\ rtype = "legal_advice"
       /\ ~Contains(text_lower, "legal")
       /\ ~Contains(text_lower, "attorney")

\* C12: the required-disclaimers result of every report has passed, under
\* strict mode, exactly when all four general categories are present and the
\* content type's addendum is satisfied, and without strict mode exactly when
\* at least two of the four general categories are present, whether or not
\* the addendum is satisfied.
C12_RequiredDisclaimers ==
    \A c \in Threads : Evaluated(c) =>
        LET result == ret[c].checks_performed["required_disclaimers"]
            text_lower == Lower(response_text[c].value)
            present == CategoriesPresent(text_lower)
        IN  /\ Len(REQUIRED_DISCLAIMERS) = 4
            /\ strict_mode[c] =>
                  (result.passed <=>
                      /\ present = 1..4
                      /\ ~AddendumMissing(text_lower, response_type[c]))
            /\ ~strict_mode[c] => (result.passed <=> Cardinality(present) >= 2)

\* a relaxed report on tax advice with exactly two general categories and no
\* tax referral: the check passed
C12_Witness ==
    /\ Evaluated(Main)
    /\ ~strict_mode[Main]
    /\ response_type[Main] = "tax_advice"
    /\ Cardinality(CategoriesPresent(Lower(response_text[Main].value))) = 2
    /\ AddendumMissing(Lower(response_text[Main].value), "tax_advice")
    /\ ret[Main].checks_performed["required_disclaimers"].passed

\* the values of the fields of the issues of a list
IssueValues(issues) == UNION {{issues[k][f] : f \in DOMAIN issues[k]} : k \in 1..Len(issues)}

\* C13 (as claimed): every category or addendum in the `missing` list of the
\* required-disclaimers result of a report is an element of the report's
\* missing_elements and is no part of an issue of issues_found; a report whose
\* AI-disclosure and prohibited-content checks passed and whose
\* required-disclaimers check failed is not REJECTED.
C13_MissingReported ==
    \A c \in Threads : Evaluated(c) =>
        LET result == ret[c].checks_performed["required_disclaimers"]
        IN  /\ \A m \in Elements(result.missing) :
                  /\ m \in Elements(ret[c].missing_elements)
                  /\ m \notin IssueValues(ret[c].issues_found)
            /\ (/\ ~result.passed
                /\ ret[c].checks_performed["ai_disclosure"].passed
                /\ ret[c].checks_performed["prohibited_content"].passed)
                    => ret[c].overall_status # "REJECTED"

\* the risk types that occur in the lowered text
RisksPresent(text_lower) ==
    {i \in 1..Len(RISK_TYPES) : Contains(text_lower, RISK_TYPES[i])}

\* the report of call c holds a risk-disclosure result
HasRiskResult(c) == Evaluated(c) /\ "risk_disclosure" \in DOMAIN ret[c].checks_performed

\* C14: the risk-disclosure result of every report that holds one has passed
\* exactly when the number of the seven risk types that occur in the lowered
\* text is at least 3 under strict mode and at least 1 without it.
C14_RiskMinimum ==
    \A c \in Threads : HasRiskResult(c) =>
        LET result == ret[c].checks_performed["risk_disclosure"]
            count == Cardinality(RisksPresent(Lower(response_text[c].value)))
        IN  /\ Len(RISK_TYPES) = 7
            /\ result.disclosure_count = count
            /\ result.passed <=> count >= (IF strict_mode[c] THEN 3 ELSE 1)

\* a strict report of a text with exactly three risk types: the check passed
C14_Witness ==
    /\ HasRiskResult(Main)
    /\ strict_mode[Main]
    /\ Cardinality(RisksPresent(Lower(response_text[Main].value))) = 3
    /\ ret[Main].checks_performed["risk_disclosure"].passed

\* C15: in the risk-disclosure result of every report that holds one,
\* missing_risks is empty when the check passed; when it failed, missing_risks
\* is non-empty and its elements are exactly the seven risk types that are
\* not in disclosed_risks.
C15_MissingRisks ==
    \A c \in Threads : HasRiskResult(c) =>
        LET result == ret[c].checks_performed["risk_disclosure"]
        IN  /\ result.passed => result.missing_risks = <<>>
            /\ ~result.passed =>
                  /\ Len(result.missing_risks) > 0
                  /\ Elements(result.missing_risks) =
                        Elements(RISK_TYPES) \ Elements(result.disclosed_risks)
                  /\ Len(result.missing_risks) + Len(result.disclosed_risks) = 7

\* a strict report of a text with two risk types: the check failed and lists
\* the five others; the caller holds the relaxed report of the same text,
\* whose check passed and lists none
C15_Witness ==
    /\ HasRiskResult(Main)
    /\ RelaxedThenStrict(Main)
    /\ "risk_disclosure" \in DOMAIN prev.report.checks_performed
    /\ prev.report.checks_performed["risk_disclosure"].passed
    /\ prev.report.checks_performed["risk_disclosure"].missing_risks = <<>>
    /\ Len(prev.report.checks_performed["risk_disclosure"].disclosed_risks) = 2
    /\ ~ret[Main].checks_performed["risk_disclosure"].passed
    /\ Len(ret[Main].checks_performed["risk_disclosure"].missing_risks) = 5

\* the content types the risk disclosure check is made for
InvestmentRelated == {"investment_advice", "product_explanation", "market_analysis"}

\* what the AI-disclosure and required-disclaimers results of a report put
\* in missing_elements
MissingBeforeRisk(r) ==
    (IF ~r.checks_performed["ai_disclosure"].passed
     THEN <<"AI disclosure statement">> ELSE <<>>)
    \o (IF ~r.checks_performed["required_disclaimers"].passed
        THEN r.checks_performed["required_disclaimers"].missing ELSE <<>>)

C17_ContentTypeIssues ==
    \A c \in Threads : Evaluated(c) =>
        LET result == ret[c].checks_performed["content_type_specific"]
            text_lower == Lower(response_text[c].value)
            has(term) == Contains(text_lower, term)
            rtype == response_type[c]
        IN  /\ SeverityAndIssue(result.issues) =
                  IF /\ rtype = "investment_advice"
                     /\ ~has("risk tolerance") /\ ~has("time horizon")
                     /\ ~has("financial situation") /\ ~has("investment objectives")
                  THEN <<<<"HIGH", "Investment advice lacks suitability considerations">>>>
                  ELSE IF rtype = "tax_advice" /\ ~has("tax professional") /\ ~has("cpa")
                  THEN <<<<"CRITICAL", "Tax advice without proper disclaimer">>>>
                  ELSE IF /\ rtype = "legal_advice"
                          /\ ~has("attorney") /\ ~has("legal professional")
                  THEN <<<<"CRITICAL", "Legal advice without proper disclaimer">>>>
                  ELSE <<>>
            /\ result.passed <=> (Len(result.issues) = 0)

\* a report on legal advice with the one CRITICAL issue; the caller holds the
\* report of the same text on investment advice, with the one HIGH issue
C17_Witness ==
    /\ Evaluated(Main)
    /\ response_type[Main] = "legal_advice"
    /\ SeverityAndIssue(ret[Main].checks_performed["content_type_specific"].issues)
          = <<<<"CRITICAL", "Legal advice without proper disclaimer">>>>
    /\ prev # NoPrev
    /\ prev.request.response_text = response_text[Main]
    /\ prev.request.response_type = "investment_advice"
    /\ SeverityAndIssue(prev.report.checks_performed["content_type_specific"].issues)
          = <<<<"HIGH", "Investment advice lacks suitability considerations">>>>

\* the content-type result of a report holds a CRITICAL issue
ContentTypeCritical(r) ==
    \E i \in Elements(r.checks_performed["content_type_specific"].issues) :
        i.severity = "CRITICAL"

\* C18 (as claimed): a report whose content-type result holds a CRITICAL issue
\* and whose AI-disclosure and prohibited-content checks passed is
\* REQUIRES_MODIFICATION, under both strictness values.
C18_ContentCriticalRequiresModification ==
    \A c \in Threads :
        (/\ Evaluated(c)
         /\ ContentTypeCritical(ret[c])
         /\ ret[c].checks_performed["ai_disclosure"].passed
         /\ ret[c].checks_performed["prohibited_content"].passed)
            => ret[c].overall_status = "REQUIRES_MODIFICATION"

\* C19 (as claimed): every report on tax_advice of a text whose lowered form
\* does not contain "tax professional", under either strictness, has
\* tax_advice_limitation among its missing_elements and a CRITICAL issue in
\* its content-type result.
C19_TaxAdviceScenario ==
    \A c \in Threads :
        (/\ Evaluated(c)
         /\ response_type[c] = "tax_advice"
         /\ ~Contains(Lower(response_text[c].value), "tax professional"))
            => /\ "tax_advice_limitation" \in Elements(ret[c].missing_elements)
               /\ ContentTypeCritical(ret[c])

\* the fields of a report that do not name the content type
SameButType(r) ==
    [overall_status |-> r.overall_status,
     checks_performed |-> r.checks_performed,
     issues_found |-> r.issues_found,
     missing_elements |-> r.missing_elements,
     recommendations |-> r.recommendations]

\* the kept report and the report of call c are of the same text and
\* strictness, one on general_info and the other on a content type outside
\* the six recognized values
UnknownAndGeneral(c) ==
    /\ Evaluated(c)
    /\ prev # NoPrev
    /\ prev.request.response_text = response_text[c]
    /\ prev.request.strict_mode = strict_mode[c]
    /\ {prev.request.response_type, response_type[c]} = {"general_info", UnknownType}

\* C20: a call on a text with a content type outside the six recognized
\* values raises nothing of its own (it returns an ERROR report only for an
\* exception of the runtime), and its report has the same overall_status,
\* check results, issues_found, missing_elements and recommendations as the
\* report of the same text and strictness on general_info, in whichever order
\* the two were made.
C20_UnknownAsGeneral ==
    \A c \in Threads :
        /\ UnknownType \notin ResponseTypes
        /\ UnknownAndGeneral(c) => SameButType(ret[c]) = SameButType(prev.report)
        /\ (/\ Returned(c)
            /\ response_type[c] = UnknownType
            /\ response_text[c].type = "str"
            /\ ret[c].overall_status = "ERROR")
                => ret[c].error \in RuntimeErrorMessages

\* a report on an unknown content type of a text with issues and missing
\* elements, the caller holding the report of the same text on general_info
C20_Witness ==
    /\ UnknownAndGeneral(Main)
    /\ response_type[Main] = UnknownType
    /\ Len(ret[Main].issues_found) > 0
    /\ Len(ret[Main].missing_elements) > 0
    /\ Cardinality(RisksPresent(Lower(response_text[Main].value))) = 0

\* C21 (as claimed): the recommendations of every report are determined by
\* overall_status: for REJECTED the one rejection message and nothing else;
\* for REQUIRES_MODIFICATION the modification message followed by one message
\* that lists missing_elements in order; for APPROVED the one confirmation
\* message and nothing else.
C21_RecommendationsByStatus ==
    \A c \in Threads : Evaluated(c) =>
        LET r == ret[c] IN
        /\ r.overall_status = "REJECTED" =>
              r.recommendations =
                <<"CRITICAL: Response contains critical compliance violations and must be rejected or significantly modified.">>
        /\ r.overall_status = "REQUIRES_MODIFICATION" =>
              r.recommendations =
                <<"Response requires modifications to add missing compliance elements.",
                  "Add the following elements: " \o JoinWith(", ", r.missing_elements)>>
        /\ r.overall_status = "APPROVED" =>
              r.recommendations = <<"Response meets compliance requirements.">>

\* call c returned a report on general_info of a text whose lowered form has
\* an AI mention, a probabilistic-nature term, a professional-consultation
\* term and a keyword of each of the four disclaimer categories
FullyDisclosed(c) ==
    /\ Evaluated(c)
    /\ response_type[c] = "general_info"
    /\ AnyIn(<<"ai", "artificial intelligence", "ai-generated", "ai-powered">>,
             Lower(response_text[c].value))
    /\ AnyIn(<<"probabilistic", "may contain errors", "can make mistakes">>,
             Lower(response_text[c].value))
    /\ AnyIn(<<"not a substitute", "consult", "licensed", "qualified professional">>,
             Lower(response_text[c].value))
    /\ CategoriesPresent(Lower(response_text[c].value)) = 1..4

\* C22 (as claimed): for general_info and either strictness, every text with
\* an AI mention, a probabilistic-nature term, a professional-consultation
\* term and a keyword of each of the four disclaimer categories is APPROVED.
C22_FullDisclosureApproved ==
    \A c \in Threads : FullyDisclosed(c) => ret[c].overall_status = "APPROVED"

\* C22 (amended): for general_info and either strictness, every text with an
\* AI mention, a probabilistic-nature term, a professional-consultation term
\* and a keyword of each of the four disclaimer categories, and which no
\* prohibited pattern matches, is APPROVED, with no missing element.
C22_FullDisclosureWithoutProhibitedApproved ==
    \A c \in Threads :
        (FullyDisclosed(c) /\ ~ProhibitedMatch[response_text[c].value]) =>
            /\ ret[c].overall_status = "APPROVED"
            /\ ret[c].missing_elements = <<>>

\* a strict report on general_info of a fully disclosed text without a
\* prohibited phrase and with fewer than three risk types: APPROVED
C22_Witness ==
    /\ FullyDisclosed(Main)
    /\ strict_mode[Main]
    /\ ~ProhibitedMatch[response_text[Main].value]
    /\ Cardinality(RisksPresent(Lower(response_text[Main].value))) < 3
    /\ ret[Main].overall_status = "APPROVED"

\* call c returned a strict report on investment_advice of a text that passed
\* the AI-disclosure check, has a keyword of each of the four disclaimer
\* categories and names exactly one of the seven risk types
OneRiskDisclosed(c) ==
    /\ Evaluated(c)
    /\ response_type[c] = "investment_advice"
    /\ strict_mode[c]
    /\ ret[c].checks_performed["ai_disclosure"].passed
    /\ CategoriesPresent(Lower(response_text[c].value)) = 1..4
    /\ Cardinality(RisksPresent(Lower(response_text[c].value))) = 1

\* C23 (as claimed): for investment_advice under strict mode, every text that
\* passes the AI-disclosure check, has all four disclaimer categories and
\* names exactly one of the seven risk types is REQUIRES_MODIFICATION, and its
\* missing_elements holds each of the six risk types it does not name.
C23_OneRiskRequiresModification ==
    \A c \in Threads : OneRiskDisclosed(c) =>
        /\ ret[c].overall_status = "REQUIRES_MODIFICATION"
        /\ \A i \in (1..Len(RISK_TYPES)) \ RisksPresent(Lower(response_text[c].value)) :
              RISK_TYPES[i] \in Elements(ret[c].missing_elements)

\* C23 (amended): for investment_advice under strict mode, every text that
\* passes the AI-disclosure check, has all four disclaimer categories, names
\* exactly one of the seven risk types and is matched by no prohibited pattern
\* is REQUIRES_MODIFICATION, and its missing_elements is the list of the six
\* risk types it does not name, in the order of the table.
C23_OneRiskWithoutProhibitedRequiresModification ==
    \A c \in Threads :
        (OneRiskDisclosed(c) /\ ~ProhibitedMatch[response_text[c].value]) =>
            /\ ret[c].overall_status = "REQUIRES_MODIFICATION"
            /\ Len(ret[c].missing_elements) = 6
            /\ \A i \in (1..Len(RISK_TYPES)) \ RisksPresent(Lower(response_text[c].value)) :
                  RISK_TYPES[i] \in Elements(ret[c].missing_elements)
            /\ \A j, k \in 1..6 :
                  j < k => \E a, b \in 1..Len(RISK_TYPES) :
                              /\ a < b
                              /\ ret[c].missing_elements[j] = RISK_TYPES[a]
                              /\ ret[c].missing_elements[k] = RISK_TYPES[b]

\* a strict report on investment advice of a text with every disclosure, the
\* one risk type "market risk" and no prohibited phrase
C23_Witness ==
    /\ OneRiskDisclosed(Main)
    /\ ~ProhibitedMatch[response_text[Main].value]
    /\ RisksPresent(Lower(response_text[Main].value)) = {1}
    /\ ret[Main].overall_status = "REQUIRES_MODIFICATION"
    /\ Len(ret[Main].missing_elements) = 6

\* the report of validate_compliance(text, rtype, strict) when its steps run
\* one after the other with nothing in between
ReportAlone(text, rtype, strict) ==
    LET disclaimers ==
            AfterRequiredDisclaimers(
                AfterProhibitedContent(
                    AfterAiDisclosure(NewValidationResults(rtype, strict),
                        ai_disclosure_result(ComplianceChecklistTool, text, strict)),
                    prohibited_result(ComplianceChecklistTool, text)),
                disclaimer_result(ComplianceChecklistTool, text, rtype, strict))
    IN  AfterAggregate(
            AfterContentTypeSpecific(
                IF RiskDisclosureApplies(rtype)
                THEN AfterRiskDisclosure(disclaimers,
                        risk_result(ComplianceChecklistTool, text, strict))
                ELSE disclaimers,
                type_specific_result(ComplianceChecklistTool, text, rtype)))

\* C24: with the steps of two evaluations on the singleton interleaved in any
\* order, the results dict of an evaluation in progress is its own (it names
\* the call's content type and strictness, and is PENDING), every report
\* returned is the report of the call's arguments run alone, and an ERROR
\* report is returned only to the call whose own step raised.
C24_ConcurrentAsAlone ==
    \A c \in Threads :
        /\ pc[c] \in TrySteps =>
              /\ validation_results[Frame(c)] # Undefined
              /\ validation_results[Frame(c)].response_type = response_type[c]
              /\ validation_results[Frame(c)].strict_mode = strict_mode[c]
              /\ validation_results[Frame(c)].overall_status = "PENDING"
        /\ Evaluated(c) =>
              ret[c] = ReportAlone(response_text[c].value, response_type[c], strict_mode[c])
        /\ (Returned(c) /\ ~Evaluated(c)) =>
              /\ exc[c].raised
              /\ ret[c] = ErrorReport(exc[c].message)

\* both threads hold their reports at once: one APPROVED without an issue or
\* a missing element, the other REJECTED with issues and missing elements
C24_Witness ==
    /\ \A c \in Threads : Evaluated(c)
    /\ ret["t1"].overall_status = "APPROVED"
    /\ ret["t1"].issues_found = <<>> /\ ret["t1"].missing_elements = <<>>
    /\ ret["t2"].overall_status = "REJECTED"
    /\ Len(ret["t2"].issues_found) > 3 /\ Len(ret["t2"].missing_elements) > 3

\* C25: the tables PROHIBITED_PATTERNS, REQUIRED_DISCLAIMERS and RISK_TYPES of
\* the singleton always equal their initial values, and no step of an
\* evaluation, a raise and the except clause included, changes the tables,
\* the caller's texts or the arguments (text, content type, strictness) of a
\* call between its start and the hand-over of its report.
C25_InputsAndTablesUnchanged ==
    /\ [](compliance_checklist_tool = ComplianceChecklistTool)
    /\ [][/\ compliance_checklist_tool' = compliance_checklist_tool
          /\ candidates' = candidates
          /\ \A c \in Threads :
                (pc[c] # "idle" /\ pc'[c] # "idle") =>
                    /\ response_text'[c] = response_text[c]
                    /\ response_type'[c] = response_type[c]
                    /\ strict_mode'[c] = strict_mode[c]]_vars

\* an ERROR report of a text whose earlier evaluation the caller kept: the
\* tables are the initial ones and the argument is still the caller's text
C25_Witness ==
    /\ Returned(Main)
    /\ ret[Main].overall_status = "ERROR"
    /\ prev # NoPrev
    /\ response_text[Main] \in candidates
    /\ response_text[Main] = prev.request.response_text
    /\ compliance_checklist_tool.PROHIBITED_PATTERNS = PROHIBITED_PATTERNS
    /\ compliance_checklist_tool.REQUIRED_DISCLAIMERS = REQUIRED_DISCLAIMERS
    /\ compliance_checklist_tool.RISK_TYPES = RISK_TYPES

\* C26 (as claimed): the prohibited-content result of every report of a text
\* whose lowered form contains "you should buy", wherever it occurs, at the end
\* of the text or before punctuation included, holds an unlicensed_advice
\* issue, and that of a text with "you should consider buying" holds none.
C26_YouShouldBuyFlagged ==
    \A c \in Threads : Evaluated(c) =>
        LET types == {i.type : i \in Elements(ret[c].checks_performed["prohibited_content"].issues)}
        IN  /\ Search(Lower(response_text[c].value), "you should buy")
                  => "unlicensed_advice" \in types
            /\ Search(Lower(response_text[c].value), "you should consider buying")
                  => "unlicensed_advice" \notin types

\* the slice of the text from 30 characters before the match (or the start of
\* the text) to 30 characters after it (or the end of the text)
ContextWindow(text, match) ==
    Slice(text,
          IF match.start - 30 > 0 THEN match.start - 30 ELSE 0,
          IF match.end + 30 < Len(text) THEN match.end + 30 ELSE Len(text))

\* C27 (as claimed): the context of every prohibited-content issue of a report
\* is the slice of the input text from max(0, match start - 30) to
\* min(text length, match end + 30), and contains the matched substring as it
\* is in the input; it reaches exactly 30 characters to each side of the
\* match unless the start or the end of the text clips it.
C27_ContextIsWindow ==
    \A c \in Threads : Evaluated(c) =>
        \A p \in Patterns :
            LET issues == IssuesOfPattern(ret[c].checks_performed["prohibited_content"].issues, p)
                matches == finditer(p, Lower(response_text[c].value))
            IN  \A m \in 1..Len(issues) :
                    /\ issues[m].context = ContextWindow(response_text[c].value, matches[m])
                    /\ Search(issues[m].context,
                              Slice(response_text[c].value, matches[m].start, matches[m].end))

\* C28 (as claimed): in every report on tax_advice whose required-disclaimers
\* result lists tax_advice_limitation as missing, and in every report on
\* legal_advice whose required-disclaimers result lists
\* legal_advice_limitation as missing, the content-type result holds its
\* CRITICAL issue.
C28_ContentTypeAtLeastAsStrict ==
    \A c \in Threads : Evaluated(c) =>
        LET missing == Elements(ret[c].checks_performed["required_disclaimers"].missing)
        IN  /\ (response_type[c] = "tax_advice" /\ "tax_advice_limitation" \in missing)
                  => ContentTypeCritical(ret[c])
            /\ (response_type[c] = "legal_advice" /\ "legal_advice_limitation" \in missing)
                  => ContentTypeCritical(ret[c])

\* C29: every call that has started eventually returns, by the return
\* statement or by the except clause, and the overall_status of every report
\* returned is APPROVED, REQUIRES_MODIFICATION, REJECTED or ERROR, never the
\* PENDING the results dict is created with.
C29_ReturnsWithFinalStatus ==
    /\ \A c \in Threads : (pc[c] \in TrySteps \cup {"except"}) ~> Returned(c)
    /\ [](\A c \in Threads :
            Returned(c) =>
                ret[c].overall_status \in {"APPROVED", "REQUIRES_MODIFICATION", "REJECTED", "ERROR"})

\* a call that returned by the except clause, with the ERROR report, after a
\* call on the same text that returned an APPROVED report
C29_Witness ==
    /\ Returned(Main)
    /\ exc[Main].raised
    /\ ret[Main].overall_status = "ERROR"
    /\ prev # NoPrev
    /\ prev.request.response_text = response_text[Main]
    /\ prev.report.overall_status = "APPROVED"

\* the verdicts from best to worst
Rank(status) ==
    CASE status = "APPROVED" -> 0
      [] status = "REQUIRES_MODIFICATION" -> 1
      [] status = "REJECTED" -> 2

\* C30: for every text and content type, the status of the report without
\* strict mode is no worse than the status of the report under strict mode,
\* in the order APPROVED < REQUIRES_MODIFICATION < REJECTED and in whichever
\* order the two reports were made; a text REJECTED without strict mode is
\* REJECTED under it.
C30_RelaxingNeverWorsens ==
    \A c \in Threads :
        /\ StrictThenRelaxed(c) =>
              /\ Rank(ret[c].overall_status) <= Rank(prev.report.overall_status)
              /\ ret[c].overall_status = "REJECTED" => prev.report.overall_status = "REJECTED"
        /\ RelaxedThenStrict(c) =>
              /\ Rank(prev.report.overall_status) <= Rank(ret[c].overall_status)
              /\ prev.report.overall_status = "REJECTED" => ret[c].overall_status = "REJECTED"

\* a text on investment advice that is REQUIRES_MODIFICATION under strict mode
\* for its risk types alone and APPROVED without it
C30_Witness ==
    /\ StrictThenRelaxed(Main)
    /\ response_type[Main] = "investment_advice"
    /\ prev.report.overall_status = "REQUIRES_MODIFICATION"
    /\ prev.report.checks_performed["required_disclaimers"].passed
    /\ ~prev.report.checks_performed["risk_disclosure"].passed
    /\ ret[Main].overall_status = "APPROVED"

====
